---- MODULE Spec2Model ----
(***************************************************************************)
(* Model of the standard-drink calculator's BAC projection.                *)
(*                                                                         *)
(* DrinkGraph.points (the fixed-step forward simulation) and               *)
(* DrinkGraph.soberTimeInfo (the 0.05 analysis) are pure functions of the  *)
(* props the App passes down: the session's drink list and the four        *)
(* settings.  The drink list is built by App.addDrink and edited by        *)
(* App.updateDrinkTime.                                                    *)
(*                                                                         *)
(* Two specifications share the variables.  Spec runs the projection on a  *)
(* session the App can hold; AppSpec is the App itself, from its empty     *)
(* session: the handlers that change the session list, and SmartInput's    *)
(* submit handler with the interpreter's answer in flight.                 *)
(*                                                                         *)
(* Arithmetic is exact.  Quantities the code holds as JavaScript numbers   *)
(* are held here as integers in fixed units:                               *)
(*   - net standard drinks in ticks, TicksPerSD ticks to one standard      *)
(*     drink (so that a 5 minute share of an hourly burn rate and the      *)
(*     0.789 g/mL factor are whole numbers of ticks);                      *)
(*   - burn rates in tenths of a standard drink per hour (the settings     *)
(*     sliders move in steps of 0.5 and 0.1);                              *)
(*   - timestamps in milliseconds from an arbitrary origin;                *)
(*   - a BAC as the fraction num/den of a percent, den > 0 for every       *)
(*     value toBAC produces.                                               *)
(* Floating-point rounding is not modelled.                                *)
(***************************************************************************)
EXTENDS Integers, Sequences, FiniteSets, TLC

VARIABLES
    drinks,             \* App state: the session list, newest first
    firstHourBurn,      \* App setting, tenths of a standard drink per hour
    subsequentHourBurn, \* App setting, tenths of a standard drink per hour
    weight,             \* App setting, kg
    gender,             \* App setting, "male" or "female"
    pc,                 \* "session" | "loop" | "analyze" | "done"
    currentNetSD,       \* points: accumulated net standard drinks (ticks)
    currentTime,        \* points: clock of the previous sample
    timeSinceStart,     \* points: simulated ms since startTime
    steps,              \* points: loop counter
    dataPoints,         \* points: the samples pushed so far
    soberTimeInfo,      \* the summary, NullInfo until computed
    counted,            \* history: drink id -> times its units were added
    burned,             \* history: ticks subtracted by the metabolism so far
    input,              \* SmartInput state: the text typed, a sequence of characters
    isLoading,          \* SmartInput state
    error,              \* SmartInput state: the advisory message, NoError for null
    reply,              \* the settled parseDrinkInput promise the handler awaits
    nextId,             \* history: drinks created so far + 1 (ids are unique)
    totalStdDrinks      \* App state: the displayed total (ticks), set by the effect

vars == <<drinks, firstHourBurn, subsequentHourBurn, weight, gender, pc,
          currentNetSD, currentTime, timeSinceStart, steps, dataPoints,
          soberTimeInfo, counted, burned, input, isLoading, error, reply, nextId,
          totalStdDrinks>>

smartInput == <<input, isLoading, error, reply>>

settings == <<firstHourBurn, subsequentHourBurn, weight, gender>>

----------------------------------------------------------------------------
(* Bounds of the model *)

\* longest session built from the individual inputs below
MaxDrinks == 2
\* longest session simulated with both burn rates zero (289 samples each)
MaxZeroBurnDrinks == 1

\* ticks per standard drink
TicksPerSD == 12 * 10000

\* Date.now() readings (ms) at which drinks are logged: t, t + 0.5 s,
\* t + 1 s (the edge of the initial window) and t + 5 min (a step boundary)
Times == {0, 500, 1000, 300000}

\* values the datetime-local editor can produce (whole minutes)
EditTimes == {0, 900000}

\* (volumeMl, abv) entered: a pint of 5% cider and 50 mL (slider) at 4%,
\* with the names ManualCalculator generates for them
Pint == [name |-> "Pint of Cider", volumeMl |-> 570, abv |-> 5]
Sip == [name |-> "Custom Drink (50ml @ 4%)", volumeMl |-> 50, abv |-> 4]
DrinkChoices == {Pint, Sip}

\* the App's default settings, and variations of them
DefaultProfile == [firstHourBurn |-> 20, subsequentHourBurn |-> 10, weight |-> 80, gender |-> "male"]
ZeroBurnProfile == [firstHourBurn |-> 0, subsequentHourBurn |-> 0, weight |-> 80, gender |-> "female"]
Profiles ==
    { DefaultProfile,
      ZeroBurnProfile,
      [firstHourBurn |-> 20, subsequentHourBurn |-> 10, weight |-> 0, gender |-> "male"],
      [firstHourBurn |-> 10, subsequentHourBurn |-> 20, weight |-> -5, gender |-> "female"] }

----------------------------------------------------------------------------
(* Fractions: a BAC is num/den; the thresholds are fractions too *)

Frac(n, d) == [num |-> n, den |-> d]

\* a <= b, for positive denominators
FracLeq(a, b) ==
    IF a.den = b.den THEN a.num <= b.num ELSE a.num * b.den <= b.num * a.den

FracLt(a, b) == ~FracLeq(b, a)

FracNonNeg(a) == a.den > 0 /\ a.num >= 0

\* mutant: another jurisdiction's limit
LimitEight == Frac(8, 100)

\* mutant: the run flatlines while still above the limit
FlatHigh == Frac(6, 100)

\* the hard-coded 0.05 limit and the 0.001 flatline level
Limit == Frac(5, 100)
Flat == Frac(1, 1000)

----------------------------------------------------------------------------
(* App: the session list *)

\* (volumeMl / 1000) * abv * 0.789, in ticks
standardDrinks(volumeMl, abv) ==
    (volumeMl * abv * 789 * (TicksPerSD \div 1000)) \div 1000

\* App.addDrink: a new drink stamped with Date.now() goes to the front
addDrink(prev, id, name, volumeMl, abv, now) ==
    << [id |-> id,
        name |-> name,
        volumeMl |-> volumeMl,
        abv |-> abv,
        standardDrinks |-> standardDrinks(volumeMl, abv),
        timestamp |-> now] >> \o prev

\* mutant: the id is not looked at, every drink gets the new timestamp
updateDrinkTimeAll(prev, id, newTimestamp) ==
    [i \in DOMAIN prev |-> [prev[i] EXCEPT !.timestamp = newTimestamp]]

\* App.updateDrinkTime: only the timestamp of the drink with that id changes
updateDrinkTime(prev, id, newTimestamp) ==
    [i \in DOMAIN prev |->
        IF prev[i].id = id THEN [prev[i] EXCEPT !.timestamp = newTimestamp]
        ELSE prev[i]]

\* the sessions n calls of addDrink can build; the clock does not run back
RECURSIVE Sessions(_)
Sessions(n) ==
    IF n = 0 THEN {<<>>}
    ELSE { addDrink(s, n, c.name, c.volumeMl, c.abv, t) :
             <<s, c, t>> \in { x \in Sessions(n - 1) \X DrinkChoices \X Times :
                                 x[1] = <<>> \/ x[3] >= x[1][1].timestamp } }

\* four pints logged in the same millisecond, as one SmartInput answer adds them
FourPints ==
    addDrink(addDrink(addDrink(addDrink(<<>>, 1, "Pint", 570, 5, 0),
                               2, "Pint", 570, 5, 0),
                      3, "Pint", 570, 5, 0),
             4, "Pint", 570, 5, 0)

InputSessions == UNION { Sessions(n) : n \in 0..MaxDrinks } \cup {FourPints}

\* mutant: the newest drink is left out of the total
RECURSIVE totalOfButNewest(_)
totalOfButNewest(ds) ==
    IF Len(ds) <= 1 THEN 0
    ELSE totalOfButNewest(SubSeq(ds, 1, Len(ds) - 1)) + ds[Len(ds)].standardDrinks

\* the totals effect, run after every setDrinks:
\* drinks.reduce((sum, drink) => sum + drink.standardDrinks, 0)
RECURSIVE totalOf(_)
totalOf(ds) ==
    IF ds = <<>> THEN 0
    ELSE totalOf(SubSeq(ds, 1, Len(ds) - 1)) + ds[Len(ds)].standardDrinks

\* setDrinks(prev => prev.filter(d => d.id !== id))
removeDrink(prev, id) == SelectSeq(prev, LAMBDA d : d.id # id)

\* setDrinks([])
clearSession(prev) == <<>>

\* mutant: the answer to the prompt is not looked at
confirmRemoveDrinkAlways(prev, id, confirmed) == removeDrink(prev, id)

\* App.removeDrink: if (window.confirm("Remove this drink?")) setDrinks(...)
confirmRemoveDrink(prev, id, confirmed) ==
    IF confirmed THEN removeDrink(prev, id) ELSE prev

\* App.clearSession: if (window.confirm("Are you sure ...")) setDrinks([])
confirmClearSession(prev, confirmed) ==
    IF confirmed THEN clearSession(prev) ELSE prev

----------------------------------------------------------------------------
(* SmartInput.handleSubmit and the interpreter's answer *)

\* useState<string | null>(null) and the two advisory messages
NoError == "null"
NoDrinksMessage == "Could not identify any drinks. Try being more specific."
FailedMessage == "Failed to process request. Please check your connection."

\* String.prototype.trim on a text of these characters
RECURSIVE trimStart(_)
trimStart(txt) ==
    IF txt # <<>> /\ Head(txt) = " " THEN trimStart(Tail(txt)) ELSE txt

RECURSIVE trimEnd(_)
trimEnd(txt) ==
    IF txt # <<>> /\ txt[Len(txt)] = " " THEN trimEnd(SubSeq(txt, 1, Len(txt) - 1)) ELSE txt

trim(txt) == trimEnd(trimStart(txt))

\* texts the user can have in the textarea: empty, blank, and a description
Texts == { <<>>, <<" ">>, <<"a", " ">> }

\* what await parseDrinkInput(input) can give the handler: the promise
\* rejects (any failure inside is rethrown as an Error), or resolves to the
\* list of drinks the interpreter made of the text
NoReply == [kind |-> "pending"]
Thrown == [kind |-> "thrown"]
Resolved(items) == [kind |-> "drinks", items |-> items]

Guinness == [name |-> "Guinness", volumeMl |-> 570, abv |-> 4]
Tequila == [name |-> "Tequila", volumeMl |-> 30, abv |-> 40]
Replies ==
    { Thrown, Resolved(<<>>), Resolved(<<Guinness>>), Resolved(<<Guinness, Tequila>>) }

\* mutant: only the first item of the answer is added
RECURSIVE forEachAddDrinkFirstOnly(_, _, _, _)
forEachAddDrinkFirstOnly(prev, items, id, now) ==
    IF items = <<>> THEN prev
    ELSE addDrink(prev, id, items[1].name, items[1].volumeMl, items[1].abv, now)

\* drinks.forEach(d => onAddDrink(d.name, d.volumeMl, d.abv)): the items go
\* to the front one after the other, each with an id of its own
RECURSIVE forEachAddDrink(_, _, _, _)
forEachAddDrink(prev, items, id, now) ==
    IF items = <<>> THEN prev
    ELSE forEachAddDrink(addDrink(prev, id, items[1].name, items[1].volumeMl, items[1].abv, now),
                         Tail(items), id + 1, now)

\* the message the handler leaves: catch, the empty answer, or none
errorAfter(answer) ==
    IF answer.kind = "thrown" THEN FailedMessage
    ELSE IF Len(answer.items) = 0 THEN NoDrinksMessage
    ELSE NoError

----------------------------------------------------------------------------
(* DrinkGraph.points: helpers *)

\* insert d after every element whose timestamp is <= d's (keeps ties in order)
RECURSIVE InsertByTime(_, _)
InsertByTime(s, d) ==
    IF s = <<>> THEN <<d>>
    ELSE IF d.timestamp < s[1].timestamp THEN <<d>> \o s
    ELSE <<s[1]>> \o InsertByTime(Tail(s), d)

\* mutant: the list is used in the order the caller gave it
sortedDrinksUnsorted(ds) == ds

\* [...drinks].sort((a, b) => a.timestamp - b.timestamp): a stable sort of a copy
RECURSIVE sortedDrinks(_)
sortedDrinks(ds) ==
    IF ds = <<>> THEN <<>>
    ELSE InsertByTime(sortedDrinks(SubSeq(ds, 1, Len(ds) - 1)), ds[Len(ds)])

\* mutant: the sort is done in place, on the caller's array
callerDrinksSortedInPlace(ds) == sortedDrinks(ds)

\* [...drinks]: the sort works on a copy, the caller's array is as it was
callerDrinks(ds) == ds

\* mutant: the run starts at the latest drink
startTimeOfLast(sorted) == sorted[Len(sorted)].timestamp

\* sortedDrinks[0].timestamp
startTimeOf(sorted) == sorted[1].timestamp

\* sortedDrinks[sortedDrinks.length - 1].timestamp
lastDrinkTimeOf(sorted) == sorted[Len(sorted)].timestamp

\* Widmark factor r, in hundredths
r(g) == IF g = "male" THEN 68 ELSE 55

\* mutant: the weight is used as it is
toBACUnclamped(netSD, wt, g) == Frac(netSD, wt * r(g) * (TicksPerSD \div 100))

\* mutant: a weight that is not positive falls back to the default weight
toBACDefaultWeight(netSD, wt, g) ==
    LET w == IF wt > 0 THEN wt ELSE 80
    IN  Frac(netSD, w * r(g) * (TicksPerSD \div 100))

\* netSD / (w * r), w = 1 for a weight that is not positive
toBAC(netSD, wt, g) ==
    LET w == IF wt > 0 THEN wt ELSE 1
    IN  Frac(netSD, w * r(g) * (TicksPerSD \div 100))

stepMs == 5 * 60 * 1000

\* mutant: the ceiling is one step short of 24 hours
maxStepsShort == (24 * 60) \div 5 - 1

\* Safety break (24 hours max)
maxSteps == (24 * 60) \div 5

\* (burn / 60) * 5, in ticks, for a rate in tenths of a standard drink per hour
stepBurn(rate) == ((rate * (TicksPerSD \div 10)) \div 60) * 5

\* mutant: the first hour takes a thirteenth step
burnAmountInclusive(sinceStart, fhb, shb) ==
    IF sinceStart <= 60 * 60 * 1000 THEN stepBurn(fhb) ELSE stepBurn(shb)

\* the burn of one step, by the time since start before the step
burnAmount(sinceStart, fhb, shb) ==
    IF sinceStart < 60 * 60 * 1000 THEN stepBurn(fhb) ELSE stepBurn(shb)

Abs(x) == IF x < 0 THEN -x ELSE x

\* mutant: only the earliest drink is in the first point
initialDrinksFirstOnly(sorted, startTime) == <<sorted[1]>>

\* the drinks of the first point: within a second of startTime
initialDrinks(sorted, startTime) ==
    SelectSeq(sorted, LAMBDA d : Abs(d.timestamp - startTime) < 1000)

\* the drinks of a step: strictly after currentTime, at or before nextTime
drinksInInterval(sorted, cur, next) ==
    SelectSeq(sorted, LAMBDA d : d.timestamp > cur /\ d.timestamp <= next)

\* currentNetSD after adding each drink of ds in turn
RECURSIVE AddAll(_, _)
AddAll(net, ds) ==
    IF ds = <<>> THEN net ELSE AddAll(net + ds[1].standardDrinks, Tail(ds))

\* mutant: the floor at zero is missing
MetabolizeNoFloor(net, burn) == IF net > 0 THEN net - burn ELSE net

\* metabolize: nothing to burn at zero, and never below zero
Metabolize(net, burn) ==
    IF net > 0 THEN (IF net - burn < 0 THEN 0 ELSE net - burn) ELSE net

\* toLocaleTimeString hour and minute (zone offset 0): the minute of the day
Label(t) == (t \div 60000) % (24 * 60)

Point(t, net, wt, g) == [time |-> t, bac |-> toBAC(net, wt, g), label |-> Label(t)]

\* mutant: the break test reads the clock after the advance
BreakNowAdvanced(cur, lastDrinkTime, currentBAC) ==
    cur + 5 * 60 * 1000 > lastDrinkTime /\ FracLeq(currentBAC, Flat)

\* mutant: the break waits one step longer after the last drink
BreakNowLate(cur, lastDrinkTime, currentBAC) ==
    cur > lastDrinkTime + 5 * 60 * 1000 /\ FracLeq(currentBAC, Flat)

\* the break test after a sample has been pushed
BreakNow(cur, lastDrinkTime, currentBAC) ==
    cur > lastDrinkTime /\ FracLeq(currentBAC, Flat)

----------------------------------------------------------------------------
(* DrinkGraph.points as a function of the props *)

\* the loop's variables after the code before the while loop
LoopInit(ds, wt, g) ==
    LET sorted == sortedDrinks(ds)
        startTime == startTimeOf(sorted)
        net == AddAll(0, initialDrinks(sorted, startTime))
    IN  [currentNetSD |-> net,
         currentTime |-> startTime,
         timeSinceStart |-> 0,
         steps |-> 0,
         dataPoints |-> <<Point(startTime, net, wt, g)>>,
         broke |-> FALSE]

\* one pass through the body of the while loop
LoopBody(s, ds, fhb, shb, wt, g) ==
    LET sorted == sortedDrinks(ds)
        nextTime == s.currentTime + stepMs
        added == AddAll(s.currentNetSD, drinksInInterval(sorted, s.currentTime, nextTime))
        net == Metabolize(added, burnAmount(s.timeSinceStart, fhb, shb))
        pushed == Append(s.dataPoints, Point(nextTime, net, wt, g))
    IN  IF BreakNow(s.currentTime, lastDrinkTimeOf(sorted), toBAC(net, wt, g))
        THEN [s EXCEPT !.currentNetSD = net, !.dataPoints = pushed, !.broke = TRUE]
        ELSE [currentNetSD |-> net,
              currentTime |-> nextTime,
              timeSinceStart |-> s.timeSinceStart + stepMs,
              steps |-> s.steps + 1,
              dataPoints |-> pushed,
              broke |-> FALSE]

\* mutant: the ceiling test lets one pass too many through
LoopRunsInclusive(s) == ~s.broke /\ s.steps <= maxSteps

\* while (steps < maxSteps) { ... }
LoopRuns(s) == ~s.broke /\ s.steps < maxSteps

\* n passes of the loop from s, stopping where the loop stops (the passes are
\* taken in order; the range is halved only to keep the evaluation shallow)
RECURSIVE RunLoop(_, _, _, _, _, _, _)
RunLoop(s, n, ds, fhb, shb, wt, g) ==
    IF n = 0 \/ ~LoopRuns(s) THEN s
    ELSE IF n = 1 THEN LoopBody(s, ds, fhb, shb, wt, g)
    ELSE RunLoop(RunLoop(s, n \div 2, ds, fhb, shb, wt, g), n - (n \div 2), ds, fhb, shb, wt, g)

points(ds, fhb, shb, wt, g) ==
    IF Len(ds) = 0 THEN <<>>
    ELSE RunLoop(LoopInit(ds, wt, g), maxSteps, ds, fhb, shb, wt, g).dataPoints

----------------------------------------------------------------------------
(* DrinkGraph.soberTimeInfo as a function of the points *)

\* mutant: no points reads as "under"
NullInfoUnder == [status |-> "under"]

\* if (points.length === 0) return null
NullInfo == [status |-> "null"]

\* mutant: a later point replaces the peak when it is as high
RECURSIVE PeakScanLast(_, _, _, _)
PeakScanLast(pts, lo, hi, peak) ==
    IF lo > hi THEN peak
    ELSE IF lo = hi THEN (IF FracLeq(pts[peak].bac, pts[lo].bac) THEN lo ELSE peak)
    ELSE LET mid == (lo + hi) \div 2
             left == PeakScanLast(pts, lo, mid, peak)
         IN  IF left <= mid THEN PeakScanLast(pts, mid + 1, hi, left) ELSE left

\* for (i = lo; i <= hi; i++) if (points[i].bac > points[peak].bac) peak = i
\* (the indices are visited in order; the range is halved only to keep the
\* evaluation shallow, and the test left <= mid, which always holds, only
\* makes the left half's result known before the right half is scanned)
RECURSIVE PeakScan(_, _, _, _)
PeakScan(pts, lo, hi, peak) ==
    IF lo > hi THEN peak
    ELSE IF lo = hi THEN (IF FracLt(pts[peak].bac, pts[lo].bac) THEN lo ELSE peak)
    ELSE LET mid == (lo + hi) \div 2
             left == PeakScan(pts, lo, mid, peak)
         IN  IF left <= mid THEN PeakScan(pts, mid + 1, hi, left) ELSE left

\* indices are 1-based here: points[0] of the code is pts[1]
peakIndex(pts) == PeakScan(pts, 2, Len(pts), 1)

\* for (i = lo; i <= hi; i++) if (points[i].bac <= 0.05) return i; 0 if none
RECURSIVE CrossScan(_, _, _)
CrossScan(pts, lo, hi) ==
    IF lo > hi THEN 0
    ELSE IF lo = hi THEN (IF FracLeq(pts[lo].bac, Limit) THEN lo ELSE 0)
    ELSE LET mid == (lo + hi) \div 2
             left == CrossScan(pts, lo, mid)
         IN  IF left > 0 THEN left ELSE CrossScan(pts, mid + 1, hi)

\* mutant: the scan for the crossing starts at the first point
crossIndexFromStart(pts) == CrossScan(pts, 1, Len(pts))

crossIndex(pts) == CrossScan(pts, peakIndex(pts), Len(pts))

soberTimeInfoOf(pts) ==
    IF Len(pts) = 0 THEN NullInfo
    ELSE LET peakBAC == pts[peakIndex(pts)].bac
             i == crossIndex(pts)
             lastP == pts[Len(pts)]
         IN  IF FracLt(peakBAC, Limit)
             THEN [status |-> "under", peak |-> peakBAC]
             ELSE IF i > 0
             THEN [status |-> "over", peak |-> peakBAC, time |-> pts[i].time,
                   label |-> pts[i].label, projected |-> FALSE]
             ELSE [status |-> "over", peak |-> peakBAC, time |-> lastP.time,
                   label |-> lastP.label, projected |-> TRUE]

----------------------------------------------------------------------------
(* The state machine *)

Ids(ds) == { ds[i].id : i \in DOMAIN ds }

Init ==
    /\ \E p \in Profiles :
         /\ firstHourBurn = p.firstHourBurn
         /\ subsequentHourBurn = p.subsequentHourBurn
         /\ weight = p.weight
         /\ gender = p.gender
    /\ drinks \in InputSessions
    /\ (firstHourBurn = 0 /\ subsequentHourBurn = 0) =>
           (Len(drinks) <= MaxZeroBurnDrinks \/ drinks = FourPints)
    /\ pc = "session"
    /\ currentNetSD = 0
    /\ currentTime = 0
    /\ timeSinceStart = 0
    /\ steps = 0
    /\ dataPoints = <<>>
    /\ soberTimeInfo = NullInfo
    /\ counted = [id \in Ids(drinks) |-> 0]
    /\ burned = 0
    /\ input = <<>>
    /\ isLoading = FALSE
    /\ error = NoError
    /\ reply = NoReply
    /\ nextId = Len(drinks) + 1
    /\ totalStdDrinks = totalOf(drinks)

loopVars == <<currentNetSD, currentTime, timeSinceStart, steps, dataPoints>>

\* the user corrects the time of one drink in the session list
UpdateDrinkTime ==
    /\ pc = "session"
    /\ \E id \in Ids(drinks), ts \in EditTimes :
         drinks' = updateDrinkTime(drinks, id, ts)
    /\ totalStdDrinks' = totalOf(drinks')
    /\ UNCHANGED <<settings, pc, loopVars, soberTimeInfo, counted, burned, smartInput, nextId>>

\* points, up to the while loop
PointsStart ==
    /\ pc = "session"
    /\ IF Len(drinks) = 0
       THEN /\ pc' = "analyze"
            /\ UNCHANGED <<drinks, loopVars, counted>>
       ELSE LET s == LoopInit(drinks, weight, gender)
                first == initialDrinks(sortedDrinks(drinks), startTimeOf(sortedDrinks(drinks)))
            IN  /\ pc' = "loop"
                /\ drinks' = callerDrinks(drinks)
                /\ currentNetSD' = s.currentNetSD
                /\ currentTime' = s.currentTime
                /\ timeSinceStart' = s.timeSinceStart
                /\ steps' = s.steps
                /\ dataPoints' = s.dataPoints
                /\ counted' = [id \in DOMAIN counted |->
                                 counted[id] + Cardinality({i \in DOMAIN first : first[i].id = id})]
    /\ UNCHANGED <<settings, soberTimeInfo, burned, smartInput, nextId, totalStdDrinks>>

loopState ==
    [currentNetSD |-> currentNetSD, currentTime |-> currentTime,
     timeSinceStart |-> timeSinceStart, steps |-> steps,
     dataPoints |-> dataPoints, broke |-> FALSE]

\* one iteration of the while loop
LoopStep ==
    /\ pc = "loop"
    /\ LoopRuns(loopState)
    /\ LET s == LoopBody(loopState, drinks, firstHourBurn, subsequentHourBurn, weight, gender)
           inStep == drinksInInterval(sortedDrinks(drinks), currentTime, currentTime + stepMs)
       IN  /\ currentNetSD' = s.currentNetSD
           /\ currentTime' = s.currentTime
           /\ timeSinceStart' = s.timeSinceStart
           /\ steps' = s.steps
           /\ dataPoints' = s.dataPoints
           /\ pc' = IF s.broke THEN "analyze" ELSE "loop"
           /\ counted' = [id \in DOMAIN counted |->
                            counted[id] + Cardinality({i \in DOMAIN inStep : inStep[i].id = id})]
           /\ burned' = burned + (AddAll(currentNetSD, inStep) - s.currentNetSD)
    /\ UNCHANGED <<drinks, settings, soberTimeInfo, smartInput, nextId, totalStdDrinks>>

\* the loop condition fails: return dataPoints
LoopExit ==
    /\ pc = "loop"
    /\ ~LoopRuns(loopState)
    /\ pc' = "analyze"
    /\ UNCHANGED <<drinks, settings, loopVars, soberTimeInfo, counted, burned, smartInput, nextId, totalStdDrinks>>

\* soberTimeInfo, from the finished points
Analyze ==
    /\ pc = "analyze"
    /\ soberTimeInfo' = soberTimeInfoOf(dataPoints)
    /\ pc' = "done"
    /\ UNCHANGED <<drinks, settings, loopVars, counted, burned, smartInput, nextId, totalStdDrinks>>

Next == UpdateDrinkTime \/ PointsStart \/ LoopStep \/ LoopExit \/ Analyze

Spec == Init /\ [][Next]_vars

----------------------------------------------------------------------------
(* The App: the handlers that change the session list *)

\* drinks the App creates in one behaviour (ids are never reused)
MaxCreated == 3

\* Date.now() readings of the App's handlers (no handler reads a timestamp:
\* the reading only goes into the new drink, and edits give the other values)
AppTimes == {0}

\* the App after construction: no drinks, default settings, SmartInput idle
AppInit ==
    /\ drinks = <<>>
    /\ firstHourBurn = DefaultProfile.firstHourBurn
    /\ subsequentHourBurn = DefaultProfile.subsequentHourBurn
    /\ weight = DefaultProfile.weight
    /\ gender = DefaultProfile.gender
    /\ pc = "session"
    /\ currentNetSD = 0
    /\ currentTime = 0
    /\ timeSinceStart = 0
    /\ steps = 0
    /\ dataPoints = <<>>
    /\ soberTimeInfo = NullInfo
    /\ counted = <<>>
    /\ burned = 0
    /\ input = <<>>
    /\ isLoading = FALSE
    /\ error = NoError
    /\ reply = NoReply
    /\ nextId = 1
    /\ totalStdDrinks = 0

simulation == <<pc, loopVars, soberTimeInfo, counted, burned>>

\* ManualCalculator's Add Drink button
AddDrink ==
    /\ Len(drinks) < MaxDrinks
    /\ nextId <= MaxCreated
    /\ \E c \in DrinkChoices, now \in AppTimes :
         drinks' = addDrink(drinks, nextId, c.name, c.volumeMl, c.abv, now)
    /\ nextId' = nextId + 1
    /\ totalStdDrinks' = totalOf(drinks')
    /\ UNCHANGED <<settings, simulation, smartInput>>

\* the remove button of a drink, and the answer to window.confirm
RemoveDrink ==
    /\ \E id \in Ids(drinks), confirmed \in BOOLEAN :
         /\ drinks' = confirmRemoveDrink(drinks, id, confirmed)
         /\ totalStdDrinks' = IF confirmed THEN totalOf(drinks') ELSE totalStdDrinks
    /\ UNCHANGED <<settings, simulation, smartInput, nextId>>

\* the clear button, and the answer to window.confirm
ClearSession ==
    /\ \E confirmed \in BOOLEAN :
         /\ drinks' = confirmClearSession(drinks, confirmed)
         /\ totalStdDrinks' = IF confirmed THEN totalOf(drinks') ELSE totalStdDrinks
    /\ UNCHANGED <<settings, simulation, smartInput, nextId>>

\* the textarea's onChange
SetInput ==
    /\ \E txt \in Texts : input' = txt
    /\ UNCHANGED <<drinks, settings, simulation, isLoading, error, reply, nextId, totalStdDrinks>>

\* handleSubmit up to the await (the button is disabled while loading)
SubmitStart ==
    /\ ~isLoading
    /\ trim(input) # <<>>
    /\ isLoading' = TRUE
    /\ error' = NoError
    /\ UNCHANGED <<drinks, settings, simulation, input, reply, nextId, totalStdDrinks>>

\* the promise of parseDrinkInput settles
ParseSettles ==
    /\ isLoading
    /\ reply = NoReply
    /\ \E answer \in Replies :
         /\ answer.kind = "drinks" =>
              /\ Len(drinks) + Len(answer.items) <= MaxDrinks
              /\ nextId + Len(answer.items) - 1 <= MaxCreated
         /\ reply' = answer
    /\ UNCHANGED <<drinks, settings, simulation, input, isLoading, error, nextId, totalStdDrinks>>

\* handleSubmit after the await: try, catch and finally
SubmitResume ==
    /\ reply # NoReply
    /\ IF reply.kind = "drinks" /\ Len(reply.items) # 0
       THEN /\ \E now \in AppTimes :
                 drinks' = forEachAddDrink(drinks, reply.items, nextId, now)
            /\ nextId' = nextId + Len(reply.items)
            /\ input' = <<>>
            /\ totalStdDrinks' = totalOf(drinks')
       ELSE UNCHANGED <<drinks, nextId, input, totalStdDrinks>>
    /\ error' = errorAfter(reply)
    /\ isLoading' = FALSE
    /\ reply' = NoReply
    /\ UNCHANGED <<settings, simulation>>

AppNext ==
    \/ AddDrink \/ RemoveDrink \/ UpdateDrinkTime \/ ClearSession
    \/ SetInput \/ SubmitStart \/ ParseSettles \/ SubmitResume

AppSpec == AppInit /\ [][AppNext]_vars

----------------------------------------------------------------------------
(* Vocabulary of the properties *)

\* points has returned
Finished == pc \in {"analyze", "done"}

\* points has started on a session that has drinks
Started == pc # "session" /\ Len(drinks) > 0

\* the earliest and the latest timestamp of the session
T0 == CHOOSE t \in { drinks[i].timestamp : i \in DOMAIN drinks } :
        \A i \in DOMAIN drinks : t <= drinks[i].timestamp

TLast == CHOOSE t \in { drinks[i].timestamp : i \in DOMAIN drinks } :
           \A i \in DOMAIN drinks : t >= drinks[i].timestamp

\* the number of samples pushed so far
N == Len(dataPoints)

\* sample i is at or below the flatline level
IsFlat(i) == FracLeq(dataPoints[i].bac, Flat)

----------------------------------------------------------------------------
(* C1: in a finished run every drink whose timestamp lies between the       *)
(* earliest timestamp and the time of the final sample has had its units    *)
(* added exactly once, and at no moment of a run has a drink been added     *)
(* twice.  (Stated as the claim states it; the code violates it.)           *)
C1_CountedExactlyOnce ==
    Started =>
        /\ \A i \in DOMAIN drinks : counted[drinks[i].id] <= 1
        /\ Finished =>
             \A i \in DOMAIN drinks :
                 drinks[i].timestamp <= dataPoints[N].time => counted[drinks[i].id] = 1

----------------------------------------------------------------------------
(* C2: the run never holds more than 289 samples: the loop counter never    *)
(* passes 288 and, while the loop runs, the samples number one more than    *)
(* the passes completed, so the loop cannot go on for ever.                 *)
C2_AtMost289Samples ==
    /\ N <= 289
    /\ steps <= 288
    /\ pc = "loop" => N = steps + 1

\* a run that reached the ceiling
C2_Witness == pc = "done" /\ N = 289 /\ steps = 288

----------------------------------------------------------------------------
(* C3 as stated: a sample pushed by a step whose own (just advanced) time   *)
(* is strictly past the last drink and whose BAC is <= 0.001 is the last    *)
(* sample of the run.                                                       *)
C3_StopsAtFirstFlatSample ==
    Started =>
        \A i \in 2..N :
            (dataPoints[i].time > TLast /\ IsFlat(i)) => (Finished /\ i = N)

(* C3 amended: a sample pushed by a step is the last of the run when the    *)
(* clock before the advance (the time of the sample before it) is strictly  *)
(* past the last drink and its BAC is <= 0.001; the loop never goes on      *)
(* after such a sample.                                                     *)
C3_StopsAtFlatSampleAfterLastDrink ==
    Started =>
        \A i \in 2..N :
            (dataPoints[i - 1].time > TLast /\ IsFlat(i)) => (Finished /\ i = N)

\* a run ended by the break, several steps after the last drink
C3_Witness ==
    /\ pc = "done" /\ N > 3 /\ N < 289
    /\ dataPoints[N - 1].time > TLast /\ IsFlat(N)
    /\ ~IsFlat(N - 1)

----------------------------------------------------------------------------
(* C4: a finished run's samples and summary are those of every reordering   *)
(* of the session list, whatever order edits of timestamps have left the    *)
(* list in.                                                                 *)
Reorderings(ds) ==
    { [i \in DOMAIN ds |-> ds[f[i]]] :
        f \in { g \in [DOMAIN ds -> DOMAIN ds] : \A i, j \in DOMAIN ds : g[i] = g[j] => i = j } }

C4_OrderIndependent ==
    pc = "done" =>
        \A ds \in Reorderings(drinks) :
            LET pts == points(ds, firstHourBurn, subsequentHourBurn, weight, gender)
            IN  pts = dataPoints /\ soberTimeInfoOf(pts) = soberTimeInfo

\* a finished run on a list that an edit has left out of creation order: a
\* drink logged later (nearer the front) now carries an earlier timestamp
C4_Witness ==
    /\ pc = "done" /\ N > 1
    /\ \E i, j \in DOMAIN drinks :
         i < j /\ drinks[i].id > drinks[j].id /\ drinks[i].timestamp < drinks[j].timestamp

----------------------------------------------------------------------------
(* C5: the first sample is at the earliest timestamp of the session and     *)
(* sample i (counting from 0) is 5 minutes times i after it.                *)
C5_TimesAreT0PlusSteps ==
    Started =>
        /\ N >= 1
        /\ \A i \in DOMAIN dataPoints : dataPoints[i].time = T0 + (i - 1) * 300000
        /\ \A i \in 2..N : dataPoints[i - 1].time < dataPoints[i].time

\* a run of several samples on a list whose first element is not the earliest
C5_Witness == pc = "done" /\ N > 3 /\ drinks[1].timestamp > T0

----------------------------------------------------------------------------
(* C6: every sample's BAC is >= 0 and the accumulated units are >= 0,       *)
(* whatever the weight (zero and negative included) and the sex constant.   *)
C6_NonNegative ==
    /\ currentNetSD >= 0
    /\ \A i \in DOMAIN dataPoints : FracNonNeg(dataPoints[i].bac)

\* a run with a weight that is not positive in which the floor was hit
C6_Witness ==
    /\ pc = "done" /\ weight <= 0 /\ N > 2
    /\ dataPoints[1].bac.num > 0 /\ dataPoints[N].bac.num = 0

----------------------------------------------------------------------------
(* C7: as long as every sample so far is above zero, the first 12 steps     *)
(* have each burned firstHourBurn * 5/60 and every later step               *)
(* subsequentHourBurn * 5/60; after step 12 exactly firstHourBurn is gone.  *)
\* (the rates are in tenths, so rate * 5/60 is rate * TicksPerSD / 120 ticks)
C7_BurnSchedule ==
    (Started /\ \A i \in DOMAIN dataPoints : dataPoints[i].bac.num > 0) =>
        LET k == N - 1
        IN  /\ k <= 12 => burned * 120 = k * firstHourBurn * TicksPerSD
            /\ k = 12 => burned * 10 = firstHourBurn * TicksPerSD
            /\ k > 12 => burned * 120 =
                           (12 * firstHourBurn + (k - 12) * subsequentHourBurn) * TicksPerSD

\* a run past its first hour, never at zero, with two different rates
C7_Witness ==
    /\ Started /\ N > 14
    /\ \A i \in DOMAIN dataPoints : dataPoints[i].bac.num > 0
    /\ firstHourBurn # subsequentHourBurn /\ firstHourBurn > 0

----------------------------------------------------------------------------
(* C8: when every drink is within a second of the earliest one, the first   *)
(* sample carries the units of all of them and the BAC never rises          *)
(* afterwards.  (Stated as the claim states it; the code violates it.)      *)
TotalUnits == AddAll(0, drinks)

C8_SimultaneousThenDecay ==
    (Started /\ \A i \in DOMAIN drinks : drinks[i].timestamp - T0 < 1000) =>
        /\ dataPoints[1].bac = toBAC(TotalUnits, weight, gender)
        /\ \A i \in 2..N : FracLeq(dataPoints[i].bac, dataPoints[i - 1].bac)

----------------------------------------------------------------------------
(* C9: a session of two drinks with the same timestamp and the same units x *)
(* starts at bac = 2x / (w * r), and each of the two is added exactly once  *)
(* in the whole run.                                                        *)
C9_TwoAtOnce ==
    (/\ Started /\ Len(drinks) = 2
     /\ drinks[1].timestamp = drinks[2].timestamp
     /\ drinks[1].standardDrinks = drinks[2].standardDrinks) =>
        /\ dataPoints[1].bac.num = 2 * drinks[1].standardDrinks
        /\ dataPoints[1].bac.den * 100 =
             (IF weight > 0 THEN weight ELSE 1) * (IF gender = "male" THEN 68 ELSE 55) * TicksPerSD
        /\ \A i \in DOMAIN drinks : counted[drinks[i].id] = 1

\* a finished run on two pints logged at the same instant
C9_Witness ==
    /\ pc = "done" /\ Len(drinks) = 2 /\ N > 3
    /\ drinks[1].timestamp = drinks[2].timestamp
    /\ drinks[1].standardDrinks = drinks[2].standardDrinks
    /\ drinks[1].volumeMl = 570

----------------------------------------------------------------------------
(* C10: when the peak is at least 0.05 and some sample from the peak on is  *)
(* at or below 0.05, the summary is "over", not projected, and its time is  *)
(* that of the first such sample; four pints at once with the default       *)
(* settings are "over" and cross at the first sample at or below 0.05.      *)
\* the first index that holds the highest BAC
FirstMax ==
    CHOOSE i \in DOMAIN dataPoints :
        /\ \A j \in DOMAIN dataPoints : FracLeq(dataPoints[j].bac, dataPoints[i].bac)
        /\ \A j \in 1..(i - 1) : FracLt(dataPoints[j].bac, dataPoints[i].bac)

AtOrBelowLimit(i) == FracLeq(dataPoints[i].bac, Limit)

IsDefaultSettings ==
    /\ firstHourBurn = 20 /\ subsequentHourBurn = 10
    /\ weight = 80 /\ gender = "male"

C10_CrossingIsFirstAtOrBelowLimit ==
    (pc = "done" /\ N > 0) =>
        /\ (/\ FracLeq(Limit, dataPoints[FirstMax].bac)
            /\ \E i \in FirstMax..N : AtOrBelowLimit(i)) =>
               /\ soberTimeInfo.status = "over"
               /\ ~soberTimeInfo.projected
               /\ \E c \in FirstMax..N :
                    /\ AtOrBelowLimit(c)
                    /\ \A j \in FirstMax..(c - 1) : ~AtOrBelowLimit(j)
                    /\ soberTimeInfo.time = dataPoints[c].time
                    /\ soberTimeInfo.label = dataPoints[c].label
        /\ (drinks = FourPints /\ IsDefaultSettings) =>
               /\ soberTimeInfo.status = "over"
               /\ \E c \in 1..N :
                    /\ AtOrBelowLimit(c)
                    /\ \A j \in 1..(c - 1) : ~AtOrBelowLimit(j)
                    /\ soberTimeInfo.time = dataPoints[c].time

\* the four pints scenario, finished, with its crossing after the peak
C10_Witness ==
    /\ pc = "done" /\ drinks = FourPints /\ IsDefaultSettings
    /\ soberTimeInfo.status = "over" /\ ~soberTimeInfo.projected
    /\ soberTimeInfo.time > dataPoints[FirstMax].time

----------------------------------------------------------------------------
(* C11: the peak the summary is built on is at the first index that holds   *)
(* the highest BAC: no sample is above it and every sample before it is     *)
(* strictly below it.                                                       *)
C11_PeakIsFirstMaximum ==
    (pc = "done" /\ N > 0) =>
        LET p == peakIndex(dataPoints)
        IN  /\ p \in DOMAIN dataPoints
            /\ soberTimeInfo.peak = dataPoints[p].bac
            /\ \A j \in DOMAIN dataPoints : FracLeq(dataPoints[j].bac, dataPoints[p].bac)
            /\ \A j \in 1..(p - 1) : FracLt(dataPoints[j].bac, dataPoints[p].bac)

\* a finished run in which the highest BAC is held by several samples, the
\* first of them after the start
C11_Witness ==
    /\ pc = "done" /\ N > 2
    /\ FirstMax > 1
    /\ \E j \in (FirstMax + 1)..N : dataPoints[j].bac = dataPoints[FirstMax].bac

----------------------------------------------------------------------------
(* C12: the summary is "under", with a peak and nothing else, exactly when  *)
(* the peak is strictly below 0.05, and "over" otherwise; one pint of 5%    *)
(* with the default settings peaks at about 0.0413 and is "under".          *)
OnePintAtDefaults ==
    /\ Len(drinks) = 1 /\ drinks[1].volumeMl = 570 /\ drinks[1].abv = 5
    /\ IsDefaultSettings

C12_UnderIffPeakBelowLimit ==
    (pc = "done" /\ N > 0) =>
        /\ soberTimeInfo.status \in {"under", "over"}
        /\ soberTimeInfo.status = "under" <=> FracLt(dataPoints[FirstMax].bac, Frac(5, 100))
        /\ soberTimeInfo.status = "under" => DOMAIN soberTimeInfo = {"status", "peak"}
        /\ OnePintAtDefaults =>
             /\ soberTimeInfo.status = "under"
             /\ FracLt(Frac(41, 1000), soberTimeInfo.peak)
             /\ FracLt(soberTimeInfo.peak, Frac(42, 1000))

\* the one pint scenario, finished
C12_Witness == pc = "done" /\ OnePintAtDefaults /\ soberTimeInfo.status = "under"

----------------------------------------------------------------------------
(* C13: with both burn rates zero, a session whose first sample is above    *)
(* 0.05 runs to the ceiling: exactly 289 samples, the last 24 hours after   *)
(* the earliest drink, and a summary "over", projected, timed at the last   *)
(* sample.                                                                  *)
ZeroBurnOverLimit ==
    /\ Len(drinks) > 0
    /\ firstHourBurn = 0 /\ subsequentHourBurn = 0
    /\ FracLt(Frac(5, 100), dataPoints[1].bac)

C13_HorizonExhausted ==
    (pc = "done" /\ ZeroBurnOverLimit) =>
        /\ N = 289
        /\ dataPoints[N].time = T0 + 24 * 60 * 60 * 1000
        /\ soberTimeInfo.status = "over"
        /\ soberTimeInfo.projected
        /\ soberTimeInfo.time = dataPoints[N].time
        /\ soberTimeInfo.label = dataPoints[N].label

\* a single dose above the limit that nothing burns
C13_Witness == pc = "done" /\ N > 1 /\ Len(drinks) = 1 /\ ZeroBurnOverLimit

----------------------------------------------------------------------------
(* C14: each step leaves max(0, units before + units of the drinks in       *)
(* (previous clock, new clock] - the step's burn) and the sample carries    *)
(* it; a single drink of at most one step's first-hour burn is at exactly   *)
(* 0 in the second sample.                                                  *)
RECURSIVE UnitsBetween(_, _, _)
UnitsBetween(i, lo, hi) ==
    IF i = 0 THEN 0
    ELSE UnitsBetween(i - 1, lo, hi)
         + (IF drinks[i].timestamp > lo /\ drinks[i].timestamp <= hi
            THEN drinks[i].standardDrinks ELSE 0)

\* the burn of the step that follows n samples: rate * 5/60, the rate in tenths
BurnAfter(n) ==
    ((IF n <= 12 THEN firstHourBurn ELSE subsequentHourBurn) * TicksPerSD) \div 120

AtMostOneStepBurn(d) == d.standardDrinks * 120 <= firstHourBurn * TicksPerSD

C14_StepIsFlooredSum ==
    [][(pc = "loop" /\ Len(dataPoints') = N + 1) =>
          LET lo == dataPoints[N].time
              sum == currentNetSD + UnitsBetween(Len(drinks), lo, lo + 300000) - BurnAfter(N)
          IN  /\ currentNetSD' = IF sum < 0 THEN 0 ELSE sum
              /\ dataPoints'[N + 1].bac.num = currentNetSD'
              /\ (Len(drinks) = 1 /\ N = 1 /\ AtMostOneStepBurn(drinks[1])) =>
                     dataPoints'[2].bac.num = 0]_vars

\* a single drink that the first step burns whole, with units to spare
C14_Witness ==
    /\ Started /\ Len(drinks) = 1 /\ N >= 2
    /\ drinks[1].standardDrinks > 0
    /\ drinks[1].standardDrinks * 120 < firstHourBurn * TicksPerSD
    /\ dataPoints[1].bac.num > 0 /\ dataPoints[2].bac.num = 0

----------------------------------------------------------------------------
(* C15: with a weight of zero or less the run gives the samples and the     *)
(* summary that a weight of 1 gives, and every BAC has a positive divisor.  *)
C15_WeightClampedToOne ==
    (pc = "done" /\ weight <= 0) =>
        LET pts == points(drinks, firstHourBurn, subsequentHourBurn, 1, gender)
        IN  /\ dataPoints = pts
            /\ soberTimeInfo = soberTimeInfoOf(pts)
            /\ \A i \in DOMAIN dataPoints : dataPoints[i].bac.den > 0

\* a finished run with weight 0 that went over the limit
C15_Witness == pc = "done" /\ weight = 0 /\ N > 3 /\ soberTimeInfo.status = "over"

----------------------------------------------------------------------------
(* C16: an empty session gives no samples and no summary; a session with    *)
(* drinks always gives at least one sample and a summary.                   *)
C16_EmptyIffNoOutput ==
    pc = "done" =>
        /\ Len(drinks) = 0 => (dataPoints = <<>> /\ soberTimeInfo = [status |-> "null"])
        /\ Len(drinks) > 0 => (N >= 1 /\ soberTimeInfo.status \in {"under", "over"})

\* the empty session, analysed
C16_Witness == pc = "done" /\ drinks = <<>> /\ dataPoints = <<>>

----------------------------------------------------------------------------
(* C17: no step of the simulation or of the summary analysis changes the    *)
(* session list: its elements, their order and their fields stay as the     *)
(* caller passed them.                                                      *)
C17_RunLeavesDrinksAlone == [][pc' # "session" => drinks' = drinks]_vars

\* a finished run on a list that sorting by time would have reordered
C17_Witness ==
    /\ pc = "done" /\ N > 1
    /\ \E i \in 1..(Len(drinks) - 1) : drinks[i].timestamp > drinks[i + 1].timestamp

----------------------------------------------------------------------------
(* C20: when the summary reports over with a crossing that is not           *)
(* projected, every sample at or after the reported crossing time is at or  *)
(* below 0.05, whatever the session holds.                                  *)
C20_BelowLimitFromCrossingOn ==
    (pc = "done" /\ soberTimeInfo.status = "over" /\ ~soberTimeInfo.projected) =>
        \A i \in DOMAIN dataPoints :
            dataPoints[i].time >= soberTimeInfo.time => AtOrBelowLimit(i)

----------------------------------------------------------------------------
(* C18: when the handler resumes on an interpreter failure or on an empty   *)
(* answer it leaves its advisory message and the session list is exactly    *)
(* as it was; on a non-empty answer it adds one drink per item, in the      *)
(* answer's order, each to the front, with the item's name, volume and      *)
(* percentage, and leaves the drinks already there in place. The part of    *)
(* the handler before the await adds nothing.                               *)
AddedFrom(item, d) ==
    /\ d.name = item.name
    /\ d.volumeMl = item.volumeMl
    /\ d.abv = item.abv
    /\ d.standardDrinks = standardDrinks(item.volumeMl, item.abv)

C18_SubmitAddsPerItemOrSetsError ==
    [][ /\ (~isLoading /\ isLoading') => drinks' = drinks
        /\ (reply # NoReply /\ reply' = NoReply) =>
              IF reply.kind = "thrown"
              THEN error' = FailedMessage /\ drinks' = drinks
              ELSE IF Len(reply.items) = 0
              THEN error' = NoDrinksMessage /\ drinks' = drinks
              ELSE LET n == Len(reply.items)
                   IN  /\ Len(drinks') = Len(drinks) + n
                       /\ \A k \in 1..n : AddedFrom(reply.items[k], drinks'[n - k + 1])
                       /\ \A i \in DOMAIN drinks : drinks'[n + i] = drinks[i]
                       /\ \A k \in 1..n : drinks'[k].id \notin Ids(drinks)
                       /\ \A k, l \in 1..n : drinks'[k].id = drinks'[l].id => k = l
                       /\ error' = NoError
      ]_vars

\* a two-item answer was added to the session, and a later submit, answered
\* with no drinks, has left its message and the session as it was
C18_Witness ==
    /\ ~isLoading /\ error = NoDrinksMessage
    /\ Len(drinks) = 2 /\ nextId = 3
    /\ drinks[1].name = "Tequila" /\ drinks[2].name = "Guinness"

----------------------------------------------------------------------------
(* C19: no step of the App changes the id, name, volume, percentage or net  *)
(* units of a drink that stays in the session; updateDrinkTime(id, ts)      *)
(* gives a list of the same length and order in which the drink with that   *)
(* id has timestamp ts and every other drink is as it was; and a step that  *)
(* changes the list without changing its length is such an update.          *)
SameButTimestamp(a, b) ==
    /\ a.id = b.id
    /\ a.name = b.name
    /\ a.volumeMl = b.volumeMl
    /\ a.abv = b.abv
    /\ a.standardDrinks = b.standardDrinks

OnlyTimestampOf(id, ts, old, new) ==
    /\ Len(new) = Len(old)
    /\ \A i \in DOMAIN old :
         /\ SameButTimestamp(old[i], new[i])
         /\ new[i].timestamp = IF old[i].id = id THEN ts ELSE old[i].timestamp

C19_DrinksImmutableButTimestamp ==
    /\ [](\A id \in 1..MaxCreated, ts \in EditTimes :
             OnlyTimestampOf(id, ts, drinks, updateDrinkTime(drinks, id, ts)))
    /\ [][ /\ \A i \in DOMAIN drinks, j \in DOMAIN drinks' :
                drinks[i].id = drinks'[j].id => SameButTimestamp(drinks[i], drinks'[j])
           /\ (Len(drinks') = Len(drinks) /\ drinks' # drinks) =>
                \E id \in Ids(drinks), ts \in EditTimes :
                    OnlyTimestampOf(id, ts, drinks, drinks')
         ]_vars

\* after adds, a removal and an edit: the older of the two drinks left was
\* moved to a time no Date.now() reading gave, the newer keeps its own
C19_Witness ==
    /\ Len(drinks) = 2 /\ nextId = 4
    /\ drinks[2].timestamp = 900000 /\ drinks[1].timestamp = 0

----------------------------------------------------------------------------
(* C21: a summary marked projected comes only from a run that used up the   *)
(* horizon while over the limit: the run has exactly 289 samples, its last  *)
(* sample is above 0.05, and it was not ended by the flatline break (the    *)
(* break test did not hold on its last sample).                             *)
EndedByBreak ==
    /\ N >= 2
    /\ dataPoints[N - 1].time > TLast
    /\ FracLeq(dataPoints[N].bac, Frac(1, 1000))

C21_ProjectedOnlyAtHorizon ==
    (pc = "done" /\ N > 0 /\ soberTimeInfo.status = "over") =>
        /\ soberTimeInfo.projected =>
              /\ N = 289
              /\ FracLt(Frac(5, 100), dataPoints[N].bac)
              /\ ~EndedByBreak
        /\ (EndedByBreak /\ N < 289) => ~soberTimeInfo.projected

\* a projected summary: the last of the samples is still above the limit
C21_Witness ==
    /\ pc = "done" /\ N > 0
    /\ soberTimeInfo.status = "over" /\ soberTimeInfo.projected
    /\ FracLt(Frac(5, 100), dataPoints[N].bac)
    /\ dataPoints[N].time = soberTimeInfo.time

----------------------------------------------------------------------------
(* C22: a finished run of a non-empty session that has fewer than 289       *)
(* samples ends on a sample with BAC <= 0.001 whose time is more than five  *)
(* minutes after the last drink's timestamp; every finished run of a        *)
(* non-empty session has at least 3 samples.                                *)
C22_EarlyEndIsFlatAndLate ==
    (Finished /\ Len(drinks) > 0) =>
        /\ N < 289 =>
              /\ FracLeq(dataPoints[N].bac, Frac(1, 1000))
              /\ dataPoints[N].time > TLast + 5 * 60 * 1000
        /\ N >= 3

\* one small drink at the defaults: the first step burns all of it, and the
\* run still goes on to a third sample
C22_Witness ==
    /\ pc = "done" /\ Len(drinks) = 1 /\ N = 3
    /\ dataPoints[2].bac.num = 0
    /\ dataPoints[1].bac.num > 0

----------------------------------------------------------------------------
(* C23: in every session the App can hold, removeDrink(id) answered with    *)
(* yes gives the list without the drink of that id, the others as they were *)
(* and in their order, and clearSession answered with yes gives the empty   *)
(* list; either of them answered with no gives the list as it was. A step   *)
(* of the App that shortens the list is one of these two results.           *)
Without(id, old, new) ==
    IF id \in Ids(old)
    THEN \E p \in DOMAIN old :
            /\ old[p].id = id
            /\ new = SubSeq(old, 1, p - 1) \o SubSeq(old, p + 1, Len(old))
    ELSE new = old

C23_RemoveAndClearOnlyOnConfirm ==
    /\ [](\A id \in 1..MaxCreated :
             /\ Without(id, drinks, confirmRemoveDrink(drinks, id, TRUE))
             /\ confirmRemoveDrink(drinks, id, FALSE) = drinks
             /\ confirmClearSession(drinks, TRUE) = <<>>
             /\ confirmClearSession(drinks, FALSE) = drinks)
    /\ [][ Len(drinks') < Len(drinks) =>
              \/ drinks' = <<>>
              \/ \E id \in Ids(drinks) : Without(id, drinks, drinks')
         ]_vars

\* the second of three drinks created was removed: the first and the third
\* are left, the newer in front
C23_Witness ==
    /\ Len(drinks) = 2
    /\ drinks[1].id = 3 /\ drinks[2].id = 1

----------------------------------------------------------------------------
(* C24: in every state the App rests in, the displayed total is the sum of  *)
(* the net units of the drinks in the session list, each counted once (0    *)
(* for the empty list); a step that edits a timestamp leaves it as it was.  *)
RECURSIVE UnitsAt(_)
UnitsAt(positions) ==
    IF positions = {} THEN 0
    ELSE LET p == CHOOSE q \in positions : TRUE
         IN  drinks[p].standardDrinks + UnitsAt(positions \ {p})

C24_TotalIsSumOfSession ==
    /\ [](/\ totalStdDrinks = UnitsAt(DOMAIN drinks)
          /\ drinks = <<>> => totalStdDrinks = 0)
    /\ [][ (Len(drinks') = Len(drinks) /\ drinks' # drinks) =>
              totalStdDrinks' = totalStdDrinks
         ]_vars

\* a pint and a small drink are left after a removal, the newer one moved
\* by an edit: the total is the units of the two
C24_Witness ==
    /\ Len(drinks) = 2 /\ nextId = 4
    /\ drinks[1].timestamp = 900000
    /\ totalStdDrinks = standardDrinks(570, 5) + standardDrinks(50, 4)

====
